---- MODULE Spec2Model ----
(***************************************************************************)
(* The authentication providers of j-u-p-iter/auth-provider.               *)
(*                                                                         *)
(* The repository holds four providers, each a closure over the browser's  *)
(* localStorage:                                                           *)
(*   "AP"   createAuthProvider            src/src/authProvider.ts 38-164   *)
(*   "BR1"  createBaseRESTAuthProvider    baseRESTAuthProvider.ts 56-188   *)
(*   "BR2"  createBaseRESTAuthProvider    baseRESTAuthProvider.ts 265-423  *)
(*   "FR"   createBaseRESTAuthProvider    src/unnamed/part_000 15-208      *)
(*                                                                         *)
(* An async operation is two steps: the synchronous part up to its await   *)
(* (the request is issued), and the continuation that runs when the        *)
(* transport settles the request.  Synchronous operations are one step.    *)
(* `last` is the observation of the step just taken: what the operation    *)
(* was given, which requests it issued, which redirects it made, what it   *)
(* returned and what the stored token was before it.                       *)
(***************************************************************************)
EXTENDS Integers, Sequences, FiniteSets, TLC

VARIABLES
    variant,    \* which provider was created
    helper,     \* the redirectHelper it was created with
    config,     \* the host, port, protocol and apiVersion it was created with
    href,       \* window.location.href
    token,      \* the value stored under LOCAL_STORAGE_KEY, Null when absent
    inflight,   \* the calls awaiting their request, in the order they started
    last,       \* the observation of the step just taken
    authed      \* history: a sign-up or sign-in has succeeded and neither
                \* signOut nor a checkError with status 401 has come after it

vars == <<variant, helper, config, href, token, inflight, last, authed>>

----------------------------------------------------------------------------
(* Bounds *)

\* number of requests that may be in flight at the same time
MaxInFlight == 2

----------------------------------------------------------------------------
(* Values *)

Variants == {"AP", "BR1", "BR2", "FR"}

\* JavaScript's null and undefined, where a string is expected
Null == "<null>"
Undef == "<undefined>"

\* the user records the backend knows, and the access token it issues to each
Users == {"u1", "u2"}
TokenOf(u) == IF u = "u1" THEN "t1" ELSE "t2"
Tokens == {TokenOf(u) : u \in Users}
ErrorMessages == {"some error message"}

LOCAL_STORAGE_KEY == "authProvider:accessToken"

\* String(v), the coercion localStorage.setItem applies to its value
StringOf(v) == IF v = Undef THEN "undefined" ELSE IF v = Null THEN "null" ELSE v

\* Boolean(v) of a string, null or undefined
Truthy(v) == v # Null /\ v # Undef /\ v # ""

\* A status as the caller hands it to checkError: a number or a string.
Num(n) == [type |-> "number", code |-> n]
Str(n) == [type |-> "string", code |-> n]

\* a === b
StrictEq(a, b) == a.type = b.type /\ a.code = b.code

UNAUTHORIZED == 401
FORBIDDEN == 403
BAD_REQUEST == 400
NOT_FOUND == 404

\* the statuses a caller may hand to checkError
Statuses ==
    {Num(UNAUTHORIZED), Str(UNAUTHORIZED), Num(FORBIDDEN), Str(FORBIDDEN),
     Num(NOT_FOUND)}

----------------------------------------------------------------------------
(* URLs.  A URL is the sequence of its pieces, so that building one by     *)
(* concatenation and taking one apart again are different computations.    *)

Origin == "https://super-site.com"

\* the pages the browser may be on (window.location.href)
Locations ==
    { <<Origin, "/users">>,
      <<Origin, "/sign-in", "?", "redirectTo", "=", "/admin">> }

\* the redirectConfig handed to checkError
RedirectMap == [u401 |-> <<"/sign-in">>, u403 |-> <<"/forbidden">>]

\* the second argument of signUp: a path, or none
NoPath == <<>>
PathsToRedirect == {NoPath, <<"/home/page">>}

\* signUp takes a path to redirect in baseRESTAuthProvider.ts only
PathsFor(v) == IF v \in {"BR1", "BR2"} THEN PathsToRedirect ELSE {NoPath}

RECURSIVE IndexOf(_, _, _)
\* the first position >= i of piece c in s, or 0
IndexOf(s, c, i) ==
    IF i > Len(s) THEN 0
    ELSE IF s[i] = c THEN i
    ELSE IndexOf(s, c, i + 1)

\* window.location.search: the part of href from its "?" on
Search(h) ==
    LET q == IndexOf(h, "?", 1)
    IN  IF q = 0 THEN <<>> ELSE SubSeq(h, q, Len(h))

RECURSIVE ParseQuery(_, _)
\* qs.parse(s)[key]: the query string is cut at each "&", each part at its
\* first "="; the value of the first part named key, if there is one
ParseQuery(s, key) ==
    IF s = <<>> THEN [found |-> FALSE, value |-> <<>>]
    ELSE LET amp == IndexOf(s, "&", 1)
             part == IF amp = 0 THEN s ELSE SubSeq(s, 1, amp - 1)
             rest == IF amp = 0 THEN <<>> ELSE SubSeq(s, amp + 1, Len(s))
             eq == IndexOf(part, "=", 1)
             k == IF eq = 0 THEN part ELSE SubSeq(part, 1, eq - 1)
             v == IF eq = 0 THEN <<>> ELSE SubSeq(part, eq + 1, Len(part))
         IN  IF k = key THEN [found |-> TRUE, value |-> v]
             ELSE ParseQuery(rest, key)

\* qs.parse(window.location.search, { ignoreQueryPrefix: true }).redirectTo
RedirectTo(h) ==
    LET s == Search(h)
        q == IF s # <<>> /\ s[1] = "?" THEN Tail(s) ELSE s
    IN  ParseQuery(q, <<"redirectTo">>)

\* `${urlToRedirectAfter401}?redirectTo=${window.location.href}`
UrlAfter401(target, h) == target \o <<"?", "redirectTo", "=">> \o h

----------------------------------------------------------------------------
(* What the transport answers, and what an operation gives its caller *)

\* the `data` member of a response body: absent, or { user, accessToken }
NoData == [is |-> "undefined", user |-> Undef, accessToken |-> Undef]
NullData == [is |-> "null", user |-> Undef, accessToken |-> Undef]
DataOf(u, t) == [is |-> "object", user |-> u, accessToken |-> t]

\* a response body { error, data }
Body(e, d) == [error |-> e, data |-> d]

\* the request promise settles: resolved with a response, rejected with an
\* error that carries the response, or rejected with no response at all
Resolved(b) == [settled |-> "resolved", hasResponse |-> TRUE, status |-> 200, body |-> b]
Rejected(st, b) == [settled |-> "rejected", hasResponse |-> TRUE, status |-> st, body |-> b]
NetworkError ==
    [settled |-> "rejected", hasResponse |-> FALSE, status |-> 0, body |-> Body(Undef, NoData)]
NoResponse ==
    [settled |-> "none", hasResponse |-> FALSE, status |-> 0, body |-> Body(Undef, NoData)]

\* { data: { user, accessToken } }: the answer to a sign-up or sign-in
SignResponses == {Resolved(Body(Undef, DataOf(u, TokenOf(u)))) : u \in Users}
\* { data: { user } }: the answer to a current-user request
UserResponses == {Resolved(Body(Undef, DataOf(u, Undef))) : u \in Users}
\* {}: the answer to ask-new-password and reset-password
EmptyResponse == Resolved(Body(Undef, NoData))
\* { error } in a response that resolves
ResolvedErrors == {Resolved(Body(e, NoData)) : e \in ErrorMessages}
\* { error } with a status that makes the transport reject
RejectedErrors ==
    {Rejected(st, Body(e, NoData)) : st \in {BAD_REQUEST, UNAUTHORIZED}, e \in ErrorMessages}

Responses ==
    SignResponses \cup UserResponses \cup {EmptyResponse} \cup ResolvedErrors
        \cup RejectedErrors \cup {NetworkError}

\* The same answers with the strings a backend is free to send but hardly
\* ever does: the second user's access token is the empty string, and the
\* second error body carries the empty string as its error.
EmptyTokenResponse == Resolved(Body(Undef, DataOf("u2", "")))
EmptyErrorResponse == Rejected(BAD_REQUEST, Body("", NoData))
AnyStringResponses ==
    {Resolved(Body(Undef, DataOf("u1", TokenOf("u1")))), EmptyTokenResponse}
        \cup UserResponses \cup {EmptyResponse} \cup ResolvedErrors
        \cup {Rejected(BAD_REQUEST, Body(e, NoData)) : e \in ErrorMessages}
        \cup {EmptyErrorResponse, NetworkError}

\* an error value: undefined, null, the string of a body, the rejection
\* object of the transport, or a TypeError raised by the provider itself
NoError == [is |-> "undefined", msg |-> "", status |-> 0]
NullError == [is |-> "null", msg |-> "", status |-> 0]
StringError(e) == [is |-> "string", msg |-> e, status |-> 0]
RejectionOf(r) ==
    [is |-> "rejection", msg |-> IF r.body.error = Undef THEN "" ELSE r.body.error,
     status |-> r.status]
TypeError == [is |-> "TypeError", msg |-> "", status |-> 0]
\* what a redirectHelper that throws has thrown
CallbackError == [is |-> "callback", msg |-> "", status |-> 0]

\* if (error)
TruthyError(e) ==
    e.is \in {"rejection", "TypeError", "callback"} \/ (e.is = "string" /\ e.msg # "")

\* what a call gives its caller
Bare(v) == [kind |-> "bare", slots |-> {}, data |-> v, error |-> NoError, flag |-> FALSE]
Flag(b) == [kind |-> "boolean", slots |-> {}, data |-> Undef, error |-> NoError, flag |-> b]
DataEnvelope(v) ==
    [kind |-> "envelope", slots |-> {"data"}, data |-> v, error |-> NoError, flag |-> FALSE]
\* handleRequest's whole { error, data } handed on as the result
ErrorEnvelopeWithData(e) ==
    [kind |-> "envelope", slots |-> {"data", "error"}, data |-> Null, error |-> e,
     flag |-> FALSE]

ErrorEnvelope(e) ==
    [kind |-> "envelope", slots |-> {"error"}, data |-> Undef, error |-> e, flag |-> FALSE]
NullEnvelope ==
    [kind |-> "envelope", slots |-> {"data", "error"}, data |-> Null, error |-> NullError,
     flag |-> FALSE]
Nothing == [kind |-> "undefined", slots |-> {}, data |-> Undef, error |-> NoError, flag |-> FALSE]
Throw(e) == [kind |-> "throw", slots |-> {}, data |-> Undef, error |-> e, flag |-> FALSE]
NoResult == [kind |-> "none", slots |-> {}, data |-> Undef, error |-> NoError, flag |-> FALSE]

----------------------------------------------------------------------------
(* handleRequest *)

\* baseRESTAuthProvider.ts: await in try/catch, a rejection is replaced by
\* err.response, then `const { data: { error, data } } = response`
HandleRequestBR(r) ==
    IF ~r.hasResponse
    THEN [threw |-> TRUE, error |-> TypeError, data |-> NoData]
    ELSE [threw |-> FALSE,
          error |-> IF r.body.error = Undef THEN NoError ELSE StringError(r.body.error),
          data |-> r.body.data]

\* a handleRequest that unwraps the rejection into the error string of its body
HandleRequestFRBodyError(r) ==
    IF r.settled = "rejected"
    THEN [threw |-> FALSE, error |-> StringError(r.body.error), data |-> NullData]
    ELSE [threw |-> FALSE, error |-> NullError,
          data |-> IF r.body.data.is = "object" THEN r.body.data ELSE NullData]

\* part_000: [error, result] = await to(requestCall);
\* data = (result && result.data.data) || null
HandleRequestFR(r) ==
    IF r.settled = "rejected"
    THEN [threw |-> FALSE, error |-> RejectionOf(r), data |-> NullData]
    ELSE [threw |-> FALSE, error |-> NullError,
          data |-> IF r.body.data.is = "object" THEN r.body.data ELSE NullData]

\* the handleRequest of a provider that has one
HandleRequest(v, r) == IF v = "FR" THEN HandleRequestFR(r) ELSE HandleRequestBR(r)

----------------------------------------------------------------------------
(* localStorage, under LOCAL_STORAGE_KEY.  `tok` is the stored value, Null *)
(* when the key is absent.                                                 *)

\* setItem that does not overwrite a value already stored
SetItemKeepsFirst(tok, v) == IF tok # Null THEN tok ELSE StringOf(v)

\* localStorage.setItem(LOCAL_STORAGE_KEY, v)
SetItem(tok, v) == StringOf(v)

\* signing out by storing an empty token instead of removing the key
RemoveItemStoresEmpty(tok) == ""

\* localStorage.removeItem(LOCAL_STORAGE_KEY)
RemoveItem(tok) == Null

\* a getAccessToken that answers the empty string when nothing is stored
GetAccessTokenOrEmpty(tok) == IF tok = Null THEN "" ELSE tok

\* getAccessToken: localStorage.getItem(LOCAL_STORAGE_KEY)
GetAccessToken(tok) == tok

\* isSignedIn written as getAccessToken() !== null
IsSignedInNotNull(tok) == GetAccessToken(tok) # Null

\* isSignedIn: Boolean(getAccessToken())
IsSignedIn(tok) == Truthy(GetAccessToken(tok))

\* The provider instances of a page: the one the operations of a behaviour
\* go through, and another one created on the same localStorage, before or
\* after the token was stored.
Instances == {"acting", "other"}

\* providers that keep the token under a key of their own
KeyOfInstance(inst) ==
    IF inst = "acting" THEN LOCAL_STORAGE_KEY ELSE "authProvider:accessToken:other"

\* the key an instance reads and writes: the constant of the module
KeyOf(inst) == LOCAL_STORAGE_KEY

\* localStorage.getItem(key); the providers write under LOCAL_STORAGE_KEY only
GetItem(tok, key) == IF key = LOCAL_STORAGE_KEY THEN tok ELSE Null

\* getAccessToken() and isSignedIn() of the instance inst
GetAccessTokenOf(inst, tok) == GetItem(tok, KeyOf(inst))
IsSignedInOf(inst, tok) == Truthy(GetAccessTokenOf(inst, tok))

\* one invocation of redirectHelper, and what the callback can observe; the
\* callback returns normally (the default () => {} and the tests' jest.fn())
Redirect(arg, tok) == [arg |-> arg, signedIn |-> IsSignedIn(tok), token |-> tok]

\* what a step does: its result, the stored token after it, its redirects
Eff(res, tok, reds) == [result |-> res, token |-> tok, redirects |-> reds]

\* The redirectHelper a provider may be created with: none, a callback that
\* returns (the tests' jest.fn()), or a callback that throws.
Helpers == {"absent", "given", "throws"}

\* a provider whose parameter has no default: the binding stays undefined
NoDefaultHelper(h) == IF h = "absent" THEN Undef ELSE h

\* the parameter `redirectHelper = () => {}`: the binding inside the provider
DefaultHelper(h) == IF h = "absent" THEN "noop" ELSE h

\* The effect e of an operation was computed with a callback that returns.
\* With the callback fn the operation stops at its first redirectHelper(...)
\* when that call throws, or when fn is not a function: the storage stays as
\* it was at that moment and the operation throws.
Invoke(fn, e) ==
    IF e.redirects = <<>> \/ fn \in {"noop", "given"} THEN e
    ELSE Eff(Throw(IF fn = "throws" THEN CallbackError ELSE TypeError),
             e.redirects[1].token, <<e.redirects[1]>>)

----------------------------------------------------------------------------
(* The continuations of the async operations: what runs once the request   *)
(* has settled with r, the stored token being tok and the page being h.    *)

\* signUp after its await
\* a signUp that redirects before it stores the token
SignUpDoneRedirectsFirst(v, r, path, tok, h) ==
    LET hr == HandleRequest(v, r)
    IN  IF v = "AP" \/ hr.threw THEN Eff(Throw(TypeError), tok, <<>>)
        ELSE IF TruthyError(hr.error) THEN Eff(ErrorEnvelope(hr.error), tok, <<>>)
        ELSE IF hr.data.is # "object" THEN Eff(Throw(TypeError), tok, <<>>)
        ELSE Eff(DataEnvelope(hr.data.user), SetItem(tok, hr.data.accessToken),
                 IF v \in {"BR1", "BR2"} /\ path # NoPath
                 THEN <<Redirect(path, tok)>> ELSE <<>>)
SignUpDone(v, r, path, tok, h) ==
    IF v = "AP"
    THEN IF r.settled = "rejected" THEN Eff(Throw(RejectionOf(r)), tok, <<>>)
         ELSE IF r.body.data.is # "object" THEN Eff(Throw(TypeError), tok, <<>>)
         ELSE Eff(Bare(r.body.data.user), SetItem(tok, r.body.data.accessToken), <<>>)
    ELSE LET hr == HandleRequest(v, r)
         IN  IF hr.threw THEN Eff(Throw(hr.error), tok, <<>>)
             ELSE IF TruthyError(hr.error) THEN Eff(ErrorEnvelope(hr.error), tok, <<>>)
             ELSE IF hr.data.is # "object" THEN Eff(Throw(TypeError), tok, <<>>)
             ELSE LET stored == SetItem(tok, hr.data.accessToken)
                  IN  Eff(DataEnvelope(hr.data.user), stored,
                          IF v \in {"BR1", "BR2"} /\ path # NoPath
                          THEN <<Redirect(path, stored)>> ELSE <<>>)

\* signIn that returns the user of a successful response without storing
\* the token
SignInDoneForgetsToken(v, r, tok, h) ==
    IF r.settled = "resolved" /\ r.body.error = Undef /\ r.body.data.is = "object"
    THEN Eff(IF v = "AP" THEN Bare(r.body.data.user) ELSE DataEnvelope(r.body.data.user),
             tok, <<>>)
    ELSE Eff(Throw(TypeError), tok, <<>>)

\* signIn after its await
SignInDone(v, r, tok, h) ==
    LET redirectTo == RedirectTo(h)
        wanted == redirectTo.found /\ redirectTo.value # <<>>
    IN  IF v = "AP"
        THEN IF r.settled = "rejected" THEN Eff(Throw(RejectionOf(r)), tok, <<>>)
             ELSE IF r.body.data.is # "object" THEN Eff(Throw(TypeError), tok, <<>>)
             ELSE Eff(Bare(r.body.data.user), SetItem(tok, r.body.data.accessToken),
                      IF wanted THEN <<Redirect(redirectTo.value, tok)>> ELSE <<>>)
        ELSE LET hr == HandleRequest(v, r)
             IN  IF hr.threw THEN Eff(Throw(hr.error), tok, <<>>)
                 ELSE IF TruthyError(hr.error) THEN Eff(ErrorEnvelope(hr.error), tok, <<>>)
                 ELSE IF hr.data.is # "object" THEN Eff(Throw(TypeError), tok, <<>>)
                 ELSE LET stored == SetItem(tok, hr.data.accessToken)
                      IN  Eff(DataEnvelope(hr.data.user), stored,
                              IF v \in {"BR1", "BR2"} /\ wanted
                              THEN <<Redirect(redirectTo.value, stored)>> ELSE <<>>)

\* a current-user continuation that signs out by itself when the request
\* is rejected
CurrentUserDoneSignsOut(v, r, tok) ==
    IF r.settled = "rejected" THEN Eff(Throw(RejectionOf(r)), RemoveItem(tok), <<>>)
    ELSE Eff(DataEnvelope(r.body.data.user), tok, <<>>)

\* a current-user request that handles a rejection as checkError handles 401
CurrentUserDoneChecksError(v, r, tok) ==
    IF r.settled = "rejected"
    THEN Eff(ErrorEnvelope(RejectionOf(r)), RemoveItem(tok),
             <<Redirect(RedirectMap.u401, RemoveItem(tok))>>)
    ELSE Eff(DataEnvelope(r.body.data.user), tok, <<>>)

\* getCurrentUser (signed in) and updateCurrentUser after their await
CurrentUserDone(v, r, tok) ==
    IF v = "AP"
    THEN IF r.settled = "rejected" THEN Eff(Throw(RejectionOf(r)), tok, <<>>)
         ELSE IF r.body.data.is # "object" THEN Eff(Throw(TypeError), tok, <<>>)
         ELSE Eff(Bare(r.body.data.user), tok, <<>>)
    ELSE LET hr == HandleRequest(v, r)
         IN  IF hr.threw THEN Eff(Throw(hr.error), tok, <<>>)
             ELSE IF TruthyError(hr.error) THEN Eff(ErrorEnvelope(hr.error), tok, <<>>)
             ELSE IF hr.data.is # "object" THEN Eff(Throw(TypeError), tok, <<>>)
             ELSE Eff(DataEnvelope(hr.data.user), tok, <<>>)

\* askNewPassword and resetPassword after their await
\* a password operation that answers a success with an envelope and takes a
\* rejection for the end of the session
PasswordDoneEnvelope(v, r, tok) ==
    LET hr == HandleRequest(v, r)
    IN  IF hr.threw THEN Eff(Throw(hr.error), tok, <<>>)
        ELSE IF TruthyError(hr.error) THEN Eff(ErrorEnvelope(hr.error), RemoveItem(tok), <<>>)
        ELSE Eff(NullEnvelope, tok, <<>>)

PasswordDone(v, r, tok) ==
    LET hr == HandleRequest(v, r)
    IN  IF hr.threw THEN Eff(Throw(hr.error), tok, <<>>)
        ELSE IF TruthyError(hr.error) THEN Eff(ErrorEnvelope(hr.error), tok, <<>>)
        ELSE Eff(Nothing, tok, <<>>)

\* every provider answering with the envelope
NotSignedInEnvelope(v) == NullEnvelope

\* getCurrentUser when it finds nobody signed in
NotSignedIn(v) == IF v \in {"AP", "BR1"} THEN Bare(Null) ELSE NullEnvelope

----------------------------------------------------------------------------
(* The synchronous operations *)

\* signOut
SignOut(tok) == Eff(Nothing, RemoveItem(tok), <<>>)

\* the status a provider compares responseStatus with
Unauthorized(v) == IF v = "BR2" THEN Num(UNAUTHORIZED) ELSE Str(UNAUTHORIZED)
Forbidden(v) == IF v = "BR2" THEN Num(FORBIDDEN) ELSE Str(FORBIDDEN)

\* checkError(response, redirectConfig)
\* a checkError that takes every status but 403 for an expired session
CheckErrorUnless403(v, status, map, tok, h) ==
    IF StrictEq(status, Forbidden(v))
    THEN Eff(Nothing, tok, <<Redirect(map.u403, tok)>>)
    ELSE Eff(Nothing, SignOut(tok).token,
             <<Redirect(UrlAfter401(map.u401, h), SignOut(tok).token)>>)

\* a checkError that redirects first and signs out afterwards
CheckErrorRedirectsFirst(v, status, map, tok, h) ==
    LET on401 == StrictEq(status, Unauthorized(v))
        on403 == StrictEq(status, Forbidden(v))
        after == IF on401 THEN SignOut(tok).token ELSE tok
    IN  Eff(Nothing, after,
            (IF on401 THEN <<Redirect(UrlAfter401(map.u401, h), tok)>> ELSE <<>>)
                \o (IF on403 THEN <<Redirect(map.u403, after)>> ELSE <<>>))

CheckError(v, status, map, tok, h) ==
    LET on401 == StrictEq(status, Unauthorized(v))
        on403 == StrictEq(status, Forbidden(v))
        after == IF on401 THEN SignOut(tok).token ELSE tok
    IN  Eff(Nothing, after,
            (IF on401 THEN <<Redirect(UrlAfter401(map.u401, h), after)>> ELSE <<>>)
                \o (IF on403 THEN <<Redirect(map.u403, after)>> ELSE <<>>))

----------------------------------------------------------------------------
(* Requests *)

\* The parameters a provider is created with; undefined where one is left
\* out.  The port is written as the text a template makes of it.
DefaultParams ==
    [host |-> "super-site.com", port |-> Undef, protocol |-> Undef, apiVersion |-> Undef]
CustomParams ==
    [host |-> "localhost", port |-> "5000", protocol |-> "http", apiVersion |-> "v2"]
Params == {DefaultParams, CustomParams}

\* the parameters of the other provider of the page
OtherParams(p) == IF p = DefaultParams THEN CustomParams ELSE DefaultParams

\* providers that keep their parameters in one place, where the provider
\* created last has put its own
ParamsShared(inst, p) == OtherParams(p)

\* the parameters the closure of instance inst has captured, p being those
\* of the acting one
ParamsOf(inst, p) == IF inst = "acting" THEN p ELSE OtherParams(p)

\* the defaults of the parameters: port = null (none in part_000),
\* protocol = "https", apiVersion = "v1"
WithDefaults(v, p) ==
    [host |-> p.host,
     port |-> IF p.port = Undef /\ v # "FR" THEN Null ELSE p.port,
     protocol |-> IF p.protocol = Undef THEN "https" ELSE p.protocol,
     apiVersion |-> IF p.apiVersion = Undef THEN "v1" ELSE p.apiVersion]

\* what the acting provider works with
Closure == WithDefaults(variant, ParamsOf("acting", config))

\* makeUrl({ host, port, protocol, path })
MakeUrl(c, path) ==
    <<c.protocol, "://", c.host>>
        \o (IF c.port \in {Null, Undef} THEN <<>> ELSE <<":", c.port>>)
        \o path

\* getPath / getOAuthPath
GetPath(v, basePath) ==
    IF v = "AP" THEN <<"api", Closure.apiVersion, basePath>>
    ELSE <<"api", Closure.apiVersion, "auth", basePath>>
GetOAuthPath(v, client) == <<"api", Closure.apiVersion, "oauth", client, "sign-in">>

NoAuth == <<>>
Bearer(tok) == <<"Bearer", StringOf(tok)>>

Request(method, path, auth, body) ==
    [method |-> method, url |-> MakeUrl(Closure, path), auth |-> auth, body |-> body]

\* the oauthClientName of the parameters of signIn: none, or a client
NoClient == "<no oauthClientName>"
OAuthClients == {NoClient, "google"}

\* the request signIn issues
SignInRequest(v, client) ==
    IF v \in {"BR2", "FR"} /\ client # NoClient
    THEN Request("POST", GetOAuthPath(v, client), NoAuth, "code")
    ELSE Request("POST", GetPath(v, "sign-in"), NoAuth,
                 IF v \in {"BR2", "FR"} THEN "userData" ELSE "params")

\* the operations a provider exposes
Exposed(v) ==
    {"signUp", "signIn", "signOut", "isSignedIn", "getCurrentUser", "getAccessToken"}
        \cup (IF v = "FR"
              THEN {"updateCurrentUser", "askNewPassword", "resetPassword"}
              ELSE {"checkError"})

----------------------------------------------------------------------------
(* State *)

\* what a call in flight has seen: whether a sign-up or sign-in that started
\* earlier or later than it has stored a token since it started
NoSaw == "none"

Pending(op, path) == [op |-> op, path |-> path, saw |-> NoSaw]

NoStatus == [type |-> "none", code |-> 0]

NoStep ==
    [step |-> "init", op |-> "none", path |-> NoPath, client |-> NoClient,
     status |-> NoStatus, sent |-> <<>>, resp |-> NoResponse, result |-> NoResult,
     before |-> Null, redirects |-> <<>>, saw |-> NoSaw, others |-> 0]

\* a provider has just been created, with one of the callbacks hs and one
\* of the parameter records ps
Created(hs, ps) ==
    /\ variant \in Variants
    /\ helper \in hs
    /\ config \in ps
    /\ href \in Locations
    /\ token = Null
    /\ inflight = <<>>
    /\ last = NoStep
    /\ authed = FALSE

Init == Created({"given"}, {DefaultParams})

\* a call that issues its request a second time
IssueTwice(op, path, client, req) ==
    /\ op \in Exposed(variant)
    /\ Len(inflight) < MaxInFlight
    /\ inflight' = Append(inflight, Pending(op, path))
    /\ last' = [NoStep EXCEPT !.step = "start", !.op = op, !.path = path,
                              !.client = client, !.sent = <<req, req>>,
                              !.before = token, !.others = Len(inflight)]
    /\ UNCHANGED <<variant, helper, config, href, token, authed>>

\* a call issues its request and awaits it
Issue(op, path, client, req) ==
    /\ op \in Exposed(variant)
    /\ Len(inflight) < MaxInFlight
    /\ inflight' = Append(inflight, Pending(op, path))
    /\ last' = [NoStep EXCEPT !.step = "start", !.op = op, !.path = path,
                              !.client = client, !.sent = <<req>>, !.before = token,
                              !.others = Len(inflight)]
    /\ UNCHANGED <<variant, helper, config, href, token, authed>>

\* a synchronous step whose signOut aborts the requests in flight
SyncCancels(op, status, e) ==
    /\ op \in Exposed(variant)
    /\ token' = e.token
    /\ last' = [NoStep EXCEPT !.step = "call", !.op = op, !.status = status,
                              !.result = e.result, !.before = token,
                              !.redirects = e.redirects, !.others = Len(inflight)]
    /\ inflight' = IF op = "signOut" THEN <<>> ELSE inflight
    /\ UNCHANGED <<variant, helper, config, href>>

\* a synchronous step with effect e
Sync(op, status, e) ==
    /\ op \in Exposed(variant)
    /\ token' = e.token
    /\ last' = [NoStep EXCEPT !.step = "call", !.op = op, !.status = status,
                              !.result = e.result, !.before = token,
                              !.redirects = e.redirects, !.others = Len(inflight)]
    /\ UNCHANGED <<variant, helper, config, href, inflight>>

SignOps == {"signUp", "signIn"}

\* the call returned to its caller without an error: a value, an envelope
\* whose error slot is empty, or nothing
ReportsSuccess(res) ==
    \/ res.kind \in {"bare", "undefined"}
    \/ res.kind = "envelope" /\ ~TruthyError(res.error)

\* s without its i-th element
RemoveAt(s, i) == SubSeq(s, 1, i - 1) \o SubSeq(s, i + 1, Len(s))

\* the calls left in flight after the i-th has settled; when it stored a
\* token, the sign-ups and sign-ins still in flight have seen that
Remaining(s, i, storedBy) ==
    LET mark(j) ==
            IF storedBy /\ s[j].op \in SignOps
            THEN [s[j] EXCEPT !.saw = IF j < i THEN "later" ELSE "earlier"]
            ELSE s[j]
    IN  RemoveAt([j \in 1..Len(s) |-> mark(j)], i)

----------------------------------------------------------------------------
(* Actions *)

StartSignUp(path) ==
    Issue("signUp", path, NoClient,
          Request("POST", GetPath(variant, "sign-up"), NoAuth, "userData"))

StartSignIn(client) ==
    Issue("signIn", NoPath, client, SignInRequest(variant, client))

\* getCurrentUser, nobody signed in: returns at once
GetCurrentUserSignedOut ==
    /\ ~IsSignedIn(token)
    /\ Sync("getCurrentUser", NoStatus, Eff(NotSignedIn(variant), token, <<>>))
    /\ UNCHANGED authed

\* getCurrentUser, signed in
StartGetCurrentUser ==
    /\ IsSignedIn(token)
    /\ Issue("getCurrentUser", NoPath, NoClient,
             Request("GET", GetPath(variant, "current-user"),
                     Bearer(GetAccessToken(token)), "none"))

StartUpdateCurrentUser ==
    Issue("updateCurrentUser", NoPath, NoClient,
          Request("PUT", GetPath(variant, "current-user"),
                  Bearer(GetAccessToken(token)), "dataToUpdate"))

StartAskNewPassword ==
    Issue("askNewPassword", NoPath, NoClient,
          Request("POST", GetPath(variant, "ask-new-password"), NoAuth, "email"))

StartResetPassword ==
    Issue("resetPassword", NoPath, NoClient,
          Request("POST", GetPath(variant, "reset-password"), NoAuth, "token, password"))

\* the effect of the continuation of call c when its request settles with r
Continue(c, r) ==
    Invoke(DefaultHelper(helper),
           CASE c.op = "signUp" -> SignUpDone(variant, r, c.path, token, href)
             [] c.op = "signIn" -> SignInDone(variant, r, token, href)
             [] c.op \in {"getCurrentUser", "updateCurrentUser"} ->
                    CurrentUserDone(variant, r, token)
             [] OTHER -> PasswordDone(variant, r, token))

\* a provider that hands out the responses in the order of the requests: a
\* call returns only when every call started before it has returned
SettleOldestFirst(i, r) ==
    LET c == inflight[i]
        e == Continue(c, r)
        signed == c.op \in SignOps /\ ReportsSuccess(e.result)
    IN  /\ i = 1
        /\ token' = e.token
        /\ inflight' = Remaining(inflight, i, signed)
        /\ last' = [NoStep EXCEPT !.step = "settle", !.op = c.op, !.path = c.path,
                                  !.resp = r, !.result = e.result, !.before = token,
                                  !.redirects = e.redirects, !.saw = c.saw,
                                  !.others = Len(inflight) - 1]
        /\ authed' = (signed \/ authed)
        /\ UNCHANGED <<variant, helper, config, href>>

\* the request of the i-th call in flight settles with r
Settle(i, r) ==
    LET c == inflight[i]
        e == Continue(c, r)
        signed == c.op \in SignOps /\ ReportsSuccess(e.result)
    IN  /\ token' = e.token
        /\ inflight' = Remaining(inflight, i, signed)
        /\ last' = [NoStep EXCEPT !.step = "settle", !.op = c.op, !.path = c.path,
                                  !.resp = r, !.result = e.result, !.before = token,
                                  !.redirects = e.redirects, !.saw = c.saw,
                                  !.others = Len(inflight) - 1]
        /\ authed' = (signed \/ authed)
        /\ UNCHANGED <<variant, helper, config, href>>

DoSignOut ==
    /\ Sync("signOut", NoStatus, SignOut(token))
    /\ authed' = FALSE

DoCheckError(status) ==
    /\ Sync("checkError", status,
            Invoke(DefaultHelper(helper),
                   CheckError(variant, status, RedirectMap, token, href)))
    /\ authed' = (authed /\ status.code # UNAUTHORIZED)

DoIsSignedIn ==
    /\ Sync("isSignedIn", NoStatus, Eff(Flag(IsSignedIn(token)), token, <<>>))
    /\ UNCHANGED authed

DoGetAccessToken ==
    /\ Sync("getAccessToken", NoStatus, Eff(Bare(GetAccessToken(token)), token, <<>>))
    /\ UNCHANGED authed

\* the browser goes to another page
Navigate(h) ==
    /\ h # href
    /\ href' = h
    /\ last' = [NoStep EXCEPT !.step = "navigate", !.before = token,
                              !.others = Len(inflight)]
    /\ UNCHANGED <<variant, helper, config, token, inflight, authed>>

\* one step of the provider and its surroundings, the transport answering
\* with one of rs, the browser going to one of the pages ls
Step(rs, ls) ==
    \/ \E path \in PathsFor(variant) : StartSignUp(path)
    \/ \E client \in OAuthClients : StartSignIn(client)
    \/ GetCurrentUserSignedOut
    \/ StartGetCurrentUser
    \/ StartUpdateCurrentUser
    \/ StartAskNewPassword
    \/ StartResetPassword
    \/ \E i \in 1..Len(inflight), r \in rs : Settle(i, r)
    \/ DoSignOut
    \/ \E status \in Statuses : DoCheckError(status)
    \/ DoIsSignedIn
    \/ DoGetAccessToken
    \/ \E h \in ls : Navigate(h)

Next == Step(Responses, Locations)

Spec == Init /\ [][Next]_vars

\* the provider created without a redirectHelper
InitNoHelper == Created({"absent"}, {DefaultParams})
SpecNoHelper == InitNoHelper /\ [][Next]_vars

\* the provider created with a redirectHelper that throws
InitThrows == Created({"throws"}, {DefaultParams})
SpecThrows == InitThrows /\ [][Next]_vars

\* the provider created with default or with custom parameters, the backend
\* answering as in the tests: the sign response, or the error with status 400
TestResponses ==
    {Resolved(Body(Undef, DataOf("u1", TokenOf("u1"))))}
        \cup {Rejected(BAD_REQUEST, Body(e, NoData)) : e \in ErrorMessages}
InitConfig == Created({"given"}, Params)
NextConfig == Step(TestResponses, Locations)
SpecConfig == InitConfig /\ [][NextConfig]_vars

\* The browser following the redirect of a 401: besides the pages of
\* Locations a page with two query parameters, and for each of them the
\* sign-in page the redirect of a 401 issued there leads to.
TwoParameters == <<Origin, "/users", "?", "page", "=", "2", "&", "sort", "=", "name">>
SignInPage(l) == <<Origin>> \o UrlAfter401(RedirectMap.u401, l)
RoundTripLocations ==
    LET ls == Locations \cup {TwoParameters}
    IN  ls \cup {SignInPage(l) : l \in ls}
NextRoundTrip == Step(TestResponses, RoundTripLocations)
SpecRoundTrip == Init /\ [][NextRoundTrip]_vars

\* the backend free to send empty strings
NextAnyString == Step(AnyStringResponses, Locations)
SpecAnyString == Init /\ [][NextAnyString]_vars

----------------------------------------------------------------------------
(* Properties *)

\* the step just taken was the continuation of a sign-up or sign-in
SignSettled == last.step = "settle" /\ last.op \in SignOps

\* res hands the user record u to the caller: u itself (createAuthProvider)
\* or { data: u }
ReturnsUser(res, u) ==
    /\ res.kind \in {"bare", "envelope"}
    /\ res.kind = "envelope" => res.slots = {"data"}
    /\ res.data = u

\* res is { error } with an error in the slot
ReturnsError(res) ==
    res.kind = "envelope" /\ res.slots = {"error"} /\ TruthyError(res.error)

\* C1: in every provider and whatever was stored before, a signUp or signIn
\* whose request succeeds with user u and access token t leaves exactly t
\* stored (getAccessToken() = t) and returns u.
C1_SuccessStoresTokenReturnsUser ==
    (SignSettled /\ last.resp \in SignResponses)
        => /\ GetAccessToken(token) = last.resp.body.data.accessToken
           /\ ReturnsUser(last.result, last.resp.body.data.user)

\* a sign-in has just replaced the token of an earlier one by its own
C1_Witness ==
    /\ SignSettled /\ last.resp \in SignResponses
    /\ last.before \in Tokens
    /\ token \in Tokens \ {last.before}
    /\ last.result.data = "u2"

\* C2: after any sequence of operations isSignedIn() is true if and only if
\* a signUp or signIn has succeeded and the most recent one has not been
\* followed by a signOut or by a checkError call with status 401.
C2_SignedInIffAuthed == IsSignedIn(token) <=> authed

\* C3: when the request of signUp or signIn fails (it is rejected, with a
\* non-2xx response or with none) the call returns the error, the stored
\* token is what it was before the call and no redirect is made.
C3_FailureReturnsError ==
    (SignSettled /\ last.resp.settled = "rejected")
        => /\ ReturnsError(last.result)
           /\ token = last.before
           /\ last.redirects = <<>>

\* C4: in every provider every network-backed operation turns a rejection
\* without a response and a non-2xx response into a returned { error }:
\* no call throws.
C4_NeverThrows ==
    (last.step = "settle" /\ last.resp.settled = "rejected")
        => /\ last.result.kind # "throw"
           /\ ReturnsError(last.result)

\* the one redirect checkError is to make on 401
RedirectAfter401 == UrlAfter401(RedirectMap.u401, href)

\* C5: in every provider that has checkError and in any session state,
\* checkError with the status 401, a number, removes the stored token and
\* invokes the redirect callback exactly once, with map[401] followed by
\* "?redirectTo=" and the current location.
C5_CheckError401 ==
    (last.op = "checkError" /\ last.status = Num(UNAUTHORIZED))
        => /\ GetAccessToken(token) = Null
           /\ Len(last.redirects) = 1
           /\ last.redirects[1].arg = RedirectAfter401

\* C6: in every provider that has checkError, checkError with the status
\* 403, a number, leaves the stored token unchanged and invokes the
\* redirect callback exactly once, with exactly map[403].
C6_CheckError403 ==
    (last.op = "checkError" /\ last.status = Num(FORBIDDEN))
        => /\ token = last.before
           /\ Len(last.redirects) = 1
           /\ last.redirects[1].arg = RedirectMap.u403

\* the providers that take a redirectHelper
HasRedirectHelper(v) == v \in {"AP", "BR1", "BR2"}

\* C7: when signIn succeeds while the query string of the page carries
\* redirectTo=v, the redirect callback is invoked exactly once, with v, and
\* only after the token has been stored (the callback sees isSignedIn() true);
\* without redirectTo in the query string a successful signIn invokes no
\* redirect.
C7_RedirectAfterStore ==
    (last.step = "settle" /\ last.op = "signIn" /\ last.resp \in SignResponses
            /\ HasRedirectHelper(variant))
        => IF RedirectTo(href).found /\ RedirectTo(href).value # <<>>
           THEN /\ Len(last.redirects) = 1
                /\ last.redirects[1].arg = RedirectTo(href).value
                /\ last.redirects[1].signedIn
                /\ last.redirects[1].token = last.resp.body.data.accessToken
           ELSE last.redirects = <<>>

\* C8: the stored token becomes present, or another value, only when a
\* signUp or signIn completes successfully, and becomes absent only in
\* signOut or in checkError with status 401; every other step (the other
\* operations, failed sign-ups and sign-ins, checkError with another
\* status) leaves it as it was.
C8_TokenFrame ==
    /\ (token # last.before /\ token # Null)
            => (SignSettled /\ ReportsSuccess(last.result))
    /\ (token # last.before /\ token = Null)
            => \/ last.op = "signOut"
               \/ last.op = "checkError" /\ last.status.code = UNAUTHORIZED
    /\ (last.op \in {"getCurrentUser", "updateCurrentUser", "askNewPassword",
                      "resetPassword", "getAccessToken", "isSignedIn"})
            => token = last.before
    /\ (SignSettled /\ ~ReportsSuccess(last.result)) => token = last.before
    /\ (last.op = "checkError" /\ last.status.code # UNAUTHORIZED)
            => token = last.before

\* a rejected current-user request has just left the stored token in place
C8_Witness ==
    /\ last.step = "settle" /\ last.op = "getCurrentUser"
    /\ last.resp.settled = "rejected" /\ last.resp.status = UNAUTHORIZED
    /\ last.before \in Tokens /\ token = last.before

\* C9: when two signIn or signUp calls are in flight together and both
\* succeed, the token stored after both have completed is the one of the
\* response that resolved last, whichever call started first; and a call
\* started while another is in flight still issues its own request.
C9_LastResolvedWins ==
    /\ (SignSettled /\ last.resp \in SignResponses /\ last.saw # NoSaw)
            => GetAccessToken(token) = last.resp.body.data.accessToken
    /\ (last.step = "start" /\ last.op \in SignOps)
            => /\ Len(last.sent) = 1
               /\ Len(inflight) = last.others + 1
               /\ inflight[Len(inflight)].op = last.op

\* the call that started first resolved last, after the later call had
\* stored another token, and its token replaced that one
C9_Witness ==
    /\ SignSettled /\ last.resp \in SignResponses
    /\ last.saw = "later"
    /\ last.before \in Tokens
    /\ token = last.resp.body.data.accessToken
    /\ token # last.before

\* C10 as stated: in every provider getCurrentUser called while no token is
\* stored returns the envelope { data: null } and issues no request.
C10_SignedOutEnvelope ==
    (last.op = "getCurrentUser" /\ last.step \in {"call", "start"} /\ last.before = Null)
        => /\ last.sent = <<>>
           /\ last.result.kind = "envelope"
           /\ "data" \in last.result.slots
           /\ last.result.data = Null

\* C10 as the code has it: getCurrentUser called while no token is stored
\* issues no request and returns null: the bare value null in
\* createAuthProvider and in the createBaseRESTAuthProvider without OAuth,
\* the envelope { data: null, error: null } in the other two providers.
C10_SignedOutNull ==
    (last.op = "getCurrentUser" /\ last.step \in {"call", "start"} /\ last.before = Null)
        => /\ last.step = "call"
           /\ last.sent = <<>>
           /\ last.result.data = Null
           /\ variant \in {"AP", "BR1"} => last.result = Bare(Null)
           /\ variant \in {"BR2", "FR"} => last.result = NullEnvelope

\* the provider without OAuth has just answered a signed-out getCurrentUser
C10_Witness ==
    /\ last.op = "getCurrentUser" /\ last.step = "call" /\ last.before = Null
    /\ variant = "BR1"
    /\ last.result = Bare(Null)

\* ---- response envelopes ----

EnvelopeOps == {"signUp", "signIn", "getCurrentUser", "updateCurrentUser"}

\* an operation of a provider that answers with envelopes has just returned
EnvelopeReturned ==
    /\ variant # "AP"
    /\ last.step \in {"call", "settle"}
    /\ last.op \in EnvelopeOps
    /\ last.result.kind # "throw"

\* a slot of an envelope holds something
PopulatedData(res) == "data" \in res.slots /\ res.data \notin {Null, Undef}
PopulatedError(res) == "error" \in res.slots /\ TruthyError(res.error)

\* C11 as stated: every value returned by signUp, signIn, getCurrentUser or
\* updateCurrentUser is an envelope with exactly one of its two slots
\* populated: data and no error, or error and no data, never both and never
\* neither.
C11_ExactlyOneSlot ==
    EnvelopeReturned
        => /\ last.result.kind = "envelope"
           /\ PopulatedData(last.result) # PopulatedError(last.result)

\* C11 as the code has it: a returned envelope never has both slots
\* populated, and it has exactly one populated (the user record, or the
\* error) except for getCurrentUser called while no token is stored, which
\* returns { data: null, error: null } with neither slot populated (the bare
\* value null in the provider without OAuth).
C11_AtMostOneSlot ==
    EnvelopeReturned
        => \/ /\ last.op = "getCurrentUser" /\ last.step = "call"
              /\ last.before = Null
              /\ last.result = NotSignedIn(variant)
              /\ ~PopulatedData(last.result) /\ ~PopulatedError(last.result)
           \/ /\ last.step = "settle"
              /\ last.result.kind = "envelope"
              /\ PopulatedData(last.result) # PopulatedError(last.result)
              /\ PopulatedData(last.result) => last.result.slots = {"data"}
              /\ PopulatedError(last.result) => last.result.slots = {"error"}

\* the fetcher-based provider has just returned a rejection in the error
\* slot of an updateCurrentUser, and nothing in the data slot
C11_Witness ==
    /\ EnvelopeReturned /\ variant = "FR"
    /\ last.op = "updateCurrentUser" /\ last.step = "settle"
    /\ PopulatedError(last.result) /\ ~PopulatedData(last.result)

\* ---- all or nothing ----

\* C12: every signUp or signIn call ends in one of two ways, also when the
\* redirect callback throws: it reports success and the returned token is the
\* stored one, or it reports failure (an error returned, or a throw) and the
\* stored token is what it was before.
C12_StoresIffSucceeds ==
    SignSettled
        => \/ /\ ReportsSuccess(last.result)
              /\ last.resp.body.data.is = "object"
              /\ GetAccessToken(token) = StringOf(last.resp.body.data.accessToken)
           \/ /\ ~ReportsSuccess(last.result)
              /\ GetAccessToken(token) = last.before

\* ---- isSignedIn and the stored value ----

\* C13 as stated: in every reachable state, whatever token strings the
\* backend returned, isSignedIn() is true exactly when a value is stored
\* under the token key: isSignedIn() = (getAccessToken() is not null).
C13_SignedInIffStored ==
    /\ IsSignedIn(token) <=> GetAccessToken(token) # Null
    /\ last.op = "isSignedIn" => last.result.flag = (GetAccessToken(token) # Null)

\* C13 as the code has it: isSignedIn() is Boolean(getAccessToken()), true
\* exactly when a non-empty string is stored; a stored empty access token
\* leaves isSignedIn() false.
C13_SignedInIffNonEmpty ==
    /\ IsSignedIn(token) <=> GetAccessToken(token) \notin {Null, ""}
    /\ last.op = "isSignedIn"
          => last.result = Flag(GetAccessToken(token) \notin {Null, ""})

\* isSignedIn() has just answered false with the empty string stored
C13_Witness ==
    /\ last.op = "isSignedIn" /\ last.step = "call"
    /\ GetAccessToken(token) = ""
    /\ last.result = Flag(FALSE)

\* ---- signOut ----

\* C14: signOut issues no request and removes the stored token in every
\* state: after it getAccessToken() is null and isSignedIn() is false
\* whether or not a token was stored before; a second signOut changes
\* nothing more, and signOut after a successful signIn gives back the state
\* of a provider nobody has signed in to (nothing stored, as in Created).
C14_SignOutClears ==
    last.op = "signOut"
        => /\ last.step = "call" /\ last.sent = <<>>
           /\ last.result = Nothing
           /\ last.redirects = <<>>
           /\ GetAccessToken(token) = Null
           /\ ~IsSignedIn(token)
           /\ SignOut(token).token = token
           /\ SignOut(SignOut(last.before).token) = SignOut(last.before)

\* signOut has just removed the token a sign-in had stored
C14_Witness ==
    /\ last.op = "signOut" /\ last.step = "call"
    /\ last.before \in Tokens
    /\ GetAccessToken(token) = Null

\* ---- the error of a rejected sign-in ----

\* nobody was signed in and a signIn of a provider with a handleRequest has
\* just had its request rejected with a response whose body is { error: e }
SignInRejected ==
    /\ variant # "AP"
    /\ last.step = "settle" /\ last.op = "signIn"
    /\ last.resp.settled = "rejected" /\ last.resp.hasResponse
    /\ last.resp.body.error # Undef
    /\ last.before = Null

C16_FailuresCoalesce ==
    (/\ last.step = "settle"
     /\ \/ last.resp.settled = "rejected"
        \/ last.resp \in ResolvedErrors)
        => /\ ReturnsError(last.result)
           /\ GetAccessToken(token) = last.before
           /\ last.redirects = <<>>

\* ---- 401 and checkError ----

\* C17: a 401 never ends the session by itself. When a network-backed
\* operation receives a 401 response the stored token is unchanged and the
\* redirect callback is not invoked; the token is cleared and the redirect
\* to the sign-in page happens only in a checkError call (the token is
\* cleared by signOut too).
C17_No401Automatism ==
    /\ (last.step = "settle" /\ last.resp.status = UNAUTHORIZED)
            => /\ GetAccessToken(token) = last.before
               /\ last.redirects = <<>>
    /\ (\E i \in 1..Len(last.redirects) : last.redirects[i].arg = RedirectAfter401)
            => last.op = "checkError" /\ last.step = "call"
    /\ (last.before # Null /\ token = Null)
            => last.op \in {"checkError", "signOut"} /\ last.step = "call"

\* the fetcher-based provider has just returned the 401 of an
\* updateCurrentUser to its caller, the token still stored
C17_Witness ==
    /\ last.step = "settle" /\ last.op = "updateCurrentUser"
    /\ last.resp.status = UNAUTHORIZED
    /\ ReturnsError(last.result) /\ last.result.error.status = UNAUTHORIZED
    /\ last.before \in Tokens /\ GetAccessToken(token) = last.before
    /\ last.redirects = <<>>

\* C18: checkError called with a response whose status is neither 401 nor
\* 403 does nothing: the stored token is unchanged and the redirect callback
\* is invoked zero times.
C18_OtherStatusNoOp ==
    (last.op = "checkError" /\ last.status.code \notin {UNAUTHORIZED, FORBIDDEN})
        => /\ last.step = "call"
           /\ GetAccessToken(token) = last.before
           /\ last.redirects = <<>>
           /\ last.sent = <<>>
           /\ last.result = Nothing

\* checkError has just been given a 404 with a token stored
C18_Witness ==
    /\ last.op = "checkError" /\ last.status = Num(NOT_FOUND)
    /\ last.before \in Tokens /\ GetAccessToken(token) = last.before
    /\ last.redirects = <<>>

\* ---- a provider without redirectHelper ----

\* C19: in a provider created without a redirectHelper every operation
\* that invokes the redirect callback (checkError on 401 or 403, signIn with
\* redirectTo in the query string, signUp with a path to redirect) completes
\* without throwing, and does to the stored token what it does with a
\* callback: checkError on 401 clears it, on 403 leaves it, a sign-up or
\* sign-in stores the token of the response.
C19_WithoutHelper ==
    (helper = "absent" /\ last.redirects # <<>>)
        => /\ last.result.kind # "throw"
           /\ ReportsSuccess(last.result)
           /\ last.op \in {"checkError", "signIn", "signUp"}
           /\ last.op = "checkError"
                => GetAccessToken(token) =
                       IF StrictEq(last.status, Unauthorized(variant)) THEN Null
                       ELSE last.before
           /\ last.op \in SignOps
                => GetAccessToken(token) = StringOf(last.resp.body.data.accessToken)

\* a checkError on 401 has just signed out the user of a provider created
\* without a redirectHelper
C19_Witness ==
    /\ helper = "absent"
    /\ last.op = "checkError" /\ StrictEq(last.status, Unauthorized(variant))
    /\ last.redirects # <<>>
    /\ last.before \in Tokens /\ GetAccessToken(token) = Null
    /\ last.result = Nothing

\* C20: in every provider that has a checkError, checkError given the
\* status as the string "401" signs the user out and invokes the redirect
\* callback exactly once, with map[401] followed by ?redirectTo= and the
\* current location; given the string "403" it keeps the user signed in and
\* invokes the redirect callback exactly once, with map[403].
C20_StringStatus ==
    (last.op = "checkError" /\ "checkError" \in Exposed(variant))
        => /\ last.status = Str(UNAUTHORIZED)
                => /\ ~IsSignedIn(token)
                   /\ Len(last.redirects) = 1
                   /\ last.redirects[1].arg = RedirectAfter401
           /\ last.status = Str(FORBIDDEN)
                => /\ GetAccessToken(token) = last.before
                   /\ Len(last.redirects) = 1
                   /\ last.redirects[1].arg = RedirectMap.u403

\* ---- createAuthProvider's checkError ----

\* C21: in the provider of createAuthProvider, checkError with the status
\* "401" after a successful signIn invokes the redirect callback exactly
\* once, and its argument is exactly the configured 401 target map[401],
\* nothing appended.
C21_Bare401Target ==
    (/\ variant = "AP"
     /\ last.op = "checkError" /\ last.status = Str(UNAUTHORIZED)
     /\ last.before \in Tokens)
        => /\ Len(last.redirects) = 1
           /\ last.redirects[1].arg = RedirectMap.u401

\* ---- the current-user endpoint ----

CurrentUserOps == {"getCurrentUser", "updateCurrentUser"}

\* a getCurrentUser or updateCurrentUser has just issued its request
CurrentUserIssued == last.step = "start" /\ last.op \in CurrentUserOps

\* C22: no request to the current-user endpoint, the GET of getCurrentUser
\* or the PUT of updateCurrentUser, is issued while no token is stored.
C22_NoRequestSignedOut ==
    CurrentUserIssued
        => /\ Len(last.sent) = 1
           /\ GetAccessToken(last.before) # Null
           /\ IsSignedIn(last.before)

\* C23: every request issued by getCurrentUser or updateCurrentUser carries
\* the header Authorization: Bearer <t>, t being the token stored at the
\* moment the request is issued, the one of the most recent successful
\* sign-up or sign-in not cleared since.
C23_BearerStoredToken ==
    CurrentUserIssued
        => /\ Len(last.sent) = 1
           /\ \E t \in Tokens \cup {"undefined"} :
                /\ GetAccessToken(token) = t
                /\ last.sent[1].auth = <<"Bearer", t>>

\* ---- one request per call ----

NetworkOps ==
    {"signUp", "signIn", "getCurrentUser", "updateCurrentUser", "askNewPassword",
     "resetPassword"}

\* C24: each call of signUp, signIn (credentials or OAuth), updateCurrentUser,
\* askNewPassword, resetPassword, and of getCurrentUser while signed in,
\* issues exactly one request, at its start, and none when the request has
\* settled, whether it succeeded or failed; signOut, isSignedIn,
\* getAccessToken, checkError and getCurrentUser while signed out issue none.
C24_OneRequestPerCall ==
    /\ last.step = "start"
         => /\ last.op \in NetworkOps
            /\ Len(last.sent) = 1
            /\ last.op = "getCurrentUser" => IsSignedIn(last.before)
            /\ Len(inflight) = last.others + 1
    /\ last.step = "settle"
         => /\ last.op \in NetworkOps
            /\ last.sent = <<>>
            /\ Len(inflight) = last.others
    /\ last.step = "call"
         => /\ last.op \in {"signOut", "isSignedIn", "getAccessToken", "checkError",
                            "getCurrentUser"}
            /\ last.sent = <<>>
            /\ last.op = "getCurrentUser" => ~IsSignedIn(last.before)
            /\ Len(inflight) = last.others

\* a sign-in of the provider with OAuth has just returned the error of its
\* rejected request, and no request is left in flight
C24_Witness ==
    /\ last.step = "settle" /\ last.op = "signIn"
    /\ variant = "BR2"
    /\ last.resp.settled = "rejected" /\ ReturnsError(last.result)
    /\ last.sent = <<>> /\ inflight = <<>>

\* ---- the two branches of signIn ----

\* C25: in the providers that know OAuth, signIn posts { code } to the OAuth
\* sign-in endpoint of the named client if and only if its parameters carry
\* an oauthClientName, and posts the userData to the credential sign-in
\* endpoint otherwise; in both branches a success stores the returned token
\* and returns the user, and a failure returns the error and leaves the
\* token unchanged.
C25_SignInBranches ==
    (variant \in {"BR2", "FR"} /\ last.op = "signIn")
        => /\ last.step = "start"
                => /\ Len(last.sent) = 1
                   /\ (last.client # NoClient)
                        <=> last.sent[1] =
                              Request("POST", GetOAuthPath(variant, last.client),
                                      NoAuth, "code")
                   /\ (last.client = NoClient)
                        <=> last.sent[1] =
                              Request("POST", GetPath(variant, "sign-in"),
                                      NoAuth, "userData")
           /\ (last.step = "settle" /\ last.resp \in SignResponses)
                => /\ GetAccessToken(token) = last.resp.body.data.accessToken
                   /\ ReturnsUser(last.result, last.resp.body.data.user)
           /\ (last.step = "settle" /\ last.resp.settled = "rejected")
                => /\ ReturnsError(last.result)
                   /\ GetAccessToken(token) = last.before

\* ---- signUp and its path to redirect ----

\* C26: a successful signUp called with a path to redirect p invokes the
\* redirect callback exactly once, with p, after the token has been stored;
\* a successful signUp called without a path invokes it zero times; a failed
\* signUp invokes it zero times, with or without a path.
C26_SignUpRedirect ==
    (last.step = "settle" /\ last.op = "signUp")
        => IF ReportsSuccess(last.result) /\ last.path # NoPath
           THEN /\ Len(last.redirects) = 1
                /\ last.redirects[1].arg = last.path
                /\ last.redirects[1].token = StringOf(last.resp.body.data.accessToken)
                /\ last.redirects[1].token = GetAccessToken(token)
                /\ last.redirects[1].signedIn
           ELSE last.redirects = <<>>

\* a signUp has just replaced the stored token and then redirected to its path
C26_Witness ==
    /\ last.step = "settle" /\ last.op = "signUp"
    /\ last.path # NoPath
    /\ last.resp \in SignResponses
    /\ last.before \in Tokens /\ last.before # GetAccessToken(token)
    /\ last.redirects = <<Redirect(last.path, GetAccessToken(token))>>

\* ---- askNewPassword and resetPassword ----

PasswordOps == {"askNewPassword", "resetPassword"}

\* C27: askNewPassword and resetPassword return nothing (undefined) when
\* their request succeeds and { error } when it fails; in both outcomes,
\* signed in or signed out, they leave the stored token unchanged.
C27_PasswordOps ==
    (last.op \in PasswordOps)
        => /\ GetAccessToken(token) = last.before
           /\ last.redirects = <<>>
           /\ (last.step = "settle" /\ last.resp.settled = "resolved")
                => last.result = Nothing
           /\ (last.step = "settle" /\ last.resp.settled = "rejected")
                => /\ ReturnsError(last.result)
                   /\ last.result = ErrorEnvelope(RejectionOf(last.resp))

\* a resetPassword of a signed-in user has just returned the error of its
\* request, the token still stored
C27_Witness ==
    /\ last.op = "resetPassword" /\ last.step = "settle"
    /\ last.resp.settled = "rejected"
    /\ ReturnsError(last.result)
    /\ last.before \in Tokens /\ GetAccessToken(token) = last.before

\* ---- what the current-user operations return ----

\* C28: in the providers that answer with envelopes, getCurrentUser called
\* while signed in and updateCurrentUser return { data: u }, u being exactly
\* the user record of the successful response, and return { error } when
\* the request fails; neither outcome changes the stored token.
C28_CurrentUserResult ==
    (variant # "AP" /\ last.step = "settle" /\ last.op \in CurrentUserOps)
        => /\ GetAccessToken(token) = last.before
           /\ last.resp \in UserResponses
                => last.result = DataEnvelope(last.resp.body.data.user)
           /\ last.resp.settled = "rejected"
                => ReturnsError(last.result)

\* ---- several providers on one storage ----

\* C29: the stored token is the only session state. Any two provider
\* instances on the same storage, one of them possibly created after the
\* token was stored, give the same isSignedIn() and getAccessToken() in
\* every reachable state: a sign-in through one is seen by the other, and a
\* signOut or a 401 checkError through one signs out the other.
C29_InstancesAgree ==
    /\ \A i, j \in Instances :
          /\ GetAccessTokenOf(i, token) = GetAccessTokenOf(j, token)
          /\ IsSignedInOf(i, token) = IsSignedInOf(j, token)
    /\ \A i \in Instances :
          /\ GetAccessTokenOf(i, token) = GetAccessToken(token)
          /\ IsSignedInOf(i, token) = IsSignedIn(token)
          /\ (SignSettled /\ last.resp \in SignResponses)
                => /\ GetAccessTokenOf(i, token) = last.resp.body.data.accessToken
                   /\ IsSignedInOf(i, token)
          /\ (\/ last.op = "signOut"
              \/ last.op = "checkError" /\ StrictEq(last.status, Unauthorized(variant)))
                => /\ GetAccessTokenOf(i, token) = Null
                   /\ ~IsSignedInOf(i, token)

\* a 401 checkError through one instance has just signed out the other one
C29_Witness ==
    /\ last.op = "checkError" /\ StrictEq(last.status, Unauthorized(variant))
    /\ IsSignedInOf("other", last.before)
    /\ ~IsSignedInOf("other", token)

\* ---- getAccessToken ----

\* the step signs the user out, or is a checkError given a 401
ClearsSession(l) ==
    \/ l.op = "signOut"
    \/ l.op = "checkError" /\ l.status.code = UNAUTHORIZED

\* getAccessToken returns the stored value as it is stored, null when there
\* is none, and changes nothing
GetAccessTokenReads ==
    last'.op = "getAccessToken"
        => /\ last'.result = Bare(token)
           /\ UNCHANGED <<variant, helper, config, href, token, inflight, authed>>

\* C30 as stated: getAccessToken returns the stored token as stored (null
\* when none is stored) and changes no state; after a successful signIn
\* with token t, as long as no signOut and no 401 checkError has come, every
\* getAccessToken call returns t.  Here: one step after that signIn.
C30_SignInTokenStays ==
    [][/\ GetAccessTokenReads
       /\ (/\ last.step = "settle" /\ last.op = "signIn"
           /\ last.resp \in SignResponses
           /\ ~ClearsSession(last'))
            => GetAccessToken(token') = last.resp.body.data.accessToken]_vars

\* C30 as the code has it: getAccessToken returns the stored token as stored
\* (null when none is stored) and changes no state; a successful signIn with
\* token t stores t, and the stored t stays, so that every getAccessToken
\* call returns it, until a signOut, a 401 checkError or a later successful
\* signUp or signIn, which replaces it by its own token.
C30_TokenStaysUntilReplaced ==
    [][/\ GetAccessTokenReads
       /\ (/\ last'.step = "settle" /\ last'.op = "signIn"
           /\ last'.resp \in SignResponses)
            => GetAccessToken(token') = last'.resp.body.data.accessToken
       /\ (/\ GetAccessToken(token) # Null
           /\ ~ClearsSession(last')
           /\ ~(last'.step = "settle" /\ last'.op \in SignOps
                    /\ ReportsSuccess(last'.result)))
            => GetAccessToken(token') = GetAccessToken(token)]_vars

\* getAccessToken has just returned the token of the second of two
\* sign-ins, with requests of other calls in flight
C30_Witness ==
    /\ last.op = "getAccessToken" /\ last.step = "call"
    /\ last.result = Bare(TokenOf("u2"))
    /\ GetAccessToken(token) = TokenOf("u2")
    /\ inflight # <<>>

\* ---- the configuration ----

\* the URL of the request the step has issued
SentUrl == last.sent[1].url

\* C31: every request of a provider goes to the base URL built from its
\* configuration. Protocol defaults to https and apiVersion to v1; with
\* host, port, protocol and apiVersion given (localhost, 5000, http, v2) the
\* sign-in is posted to http://localhost:5000 under api/v2/; and the
\* parameters of another provider instance have no part in the URLs.
C31_ConfiguredUrls ==
    last.step = "start"
        => /\ Len(last.sent) = 1
           /\ config = DefaultParams
                => SubSeq(SentUrl, 1, 5) = <<"https", "://", "super-site.com", "api", "v1">>
           /\ config = CustomParams
                => SubSeq(SentUrl, 1, 7) =
                       <<"http", "://", "localhost", ":", "5000", "api", "v2">>
           /\ (config = CustomParams /\ last.op = "signIn" /\ last.client = NoClient)
                => SentUrl =
                       <<"http", "://", "localhost", ":", "5000", "api", "v2">>
                           \o (IF variant = "AP" THEN <<>> ELSE <<"auth">>)
                           \o <<"sign-in">>
           /\ LET base == Len(MakeUrl(WithDefaults(variant, config), <<>>))
                  path == SubSeq(SentUrl, base + 1, Len(SentUrl))
              IN  /\ Len(path) \in 3..5 /\ path[1] = "api"
                  /\ SentUrl = MakeUrl(WithDefaults(variant, config), path)
                  /\ SentUrl # MakeUrl(WithDefaults(variant, OtherParams(config)), path)

\* the provider created with localhost, 5000, http and v2 has just posted
\* its credential sign-in
C31_Witness ==
    /\ config = CustomParams
    /\ last.step = "start" /\ last.op = "signIn" /\ last.client = NoClient
    /\ SubSeq(SentUrl, 1, 5) = <<"http", "://", "localhost", ":", "5000">>

\* ---- signing out while a sign-in is in flight ----

\* C32: a signOut, or a checkError given a 401, executed while a sign-in or
\* sign-up request is in flight does not cancel the request; when its
\* response then arrives and is a success, the token is stored and
\* isSignedIn() is true, after the sign-out; and the provider stays signed
\* in until another signOut or 401 checkError.
C32_SignOutDoesNotCancel ==
    [][/\ ClearsSession(last') => inflight' = inflight
       /\ (/\ last'.step = "settle" /\ last'.op \in SignOps
           /\ last'.resp \in SignResponses)
            => /\ GetAccessToken(token') = last'.resp.body.data.accessToken
               /\ IsSignedIn(token')
               /\ ReportsSuccess(last'.result)
       /\ (IsSignedIn(token) /\ ~ClearsSession(last')) => IsSignedIn(token')]_vars

\* A sign-in has just stored its token although the provider was signed out
\* while its request was in flight: since the call started another sign-up
\* or sign-in had stored a token, and nothing was stored when the response
\* arrived.
C32_Witness ==
    /\ SignSettled /\ last.resp \in SignResponses
    /\ last.saw # NoSaw
    /\ last.before = Null
    /\ IsSignedIn(token)

\* ---- the order inside checkError ----

\* C33: in checkError on 401 the token is removed before the redirect
\* callback is invoked: whenever the callback runs because of a 401,
\* isSignedIn() is already false and getAccessToken() is null at that moment.
C33_SignOutBeforeRedirect ==
    last.op = "checkError"
        => \A i \in 1..Len(last.redirects) :
              last.redirects[i].arg = RedirectAfter401
                => /\ ~last.redirects[i].signedIn
                   /\ last.redirects[i].token = Null
                   /\ StrictEq(last.status, Unauthorized(variant))
                   /\ GetAccessToken(token) = Null

\* the callback of a 401 has just run for a user who was signed in
C33_Witness ==
    /\ last.op = "checkError" /\ last.before \in Tokens
    /\ Len(last.redirects) = 1
    /\ last.redirects[1].arg = RedirectAfter401
    /\ ~last.redirects[1].signedIn

\* ---- a success without an access token ----

\* the response resolved and its body carries no access token: no data at
\* all, or data without accessToken
NoTokenResponse(r) ==
    /\ r.settled = "resolved"
    /\ r.body.data.is = "object" => r.body.data.accessToken = Undef

\* C34: signIn and signUp report success and leave the provider signed in
\* only when the successful response carried an access token: a resolved
\* response without accessToken, or without data, never makes isSignedIn()
\* true, never is reported as a success, and never makes the call throw.
C34_NoTokenNoSession ==
    (SignSettled /\ NoTokenResponse(last.resp))
        => /\ last.result.kind # "throw"
           /\ ~ReportsSuccess(last.result)
           /\ GetAccessToken(token) = last.before
           /\ IsSignedIn(token) => IsSignedIn(last.before)

\* ---- from the 401 back to where the user was ----

\* C35: the redirect of a 401 and the redirect after sign-in are a round
\* trip. checkError on 401 at location L invokes the redirect callback with
\* map[401]?redirectTo=L; when the user then signs in successfully on the
\* page of that URL, signIn invokes the redirect callback with exactly L,
\* for every location L, those carrying a query string included.
C35_RoundTrip ==
    /\ (last.op = "checkError" /\ StrictEq(last.status, Unauthorized(variant)))
            => /\ Len(last.redirects) = 1
               /\ last.redirects[1].arg = UrlAfter401(RedirectMap.u401, href)
               /\ SignInPage(href) = <<Origin>> \o last.redirects[1].arg
    /\ \A l \in RoundTripLocations :
          (/\ HasRedirectHelper(variant)
           /\ last.step = "settle" /\ last.op = "signIn"
           /\ ReportsSuccess(last.result)
           /\ href = SignInPage(l))
            => /\ Len(last.redirects) = 1
               /\ last.redirects[1].arg = l

\* ---- every call returns ----

\* the two ways the transport ends a request: its promise resolves, or it
\* rejects
Outcomes == {EmptyResponse, NetworkError}

\* C36: every call of a network-backed operation returns to its caller once
\* the transport has resolved or rejected its request, and no call waits for
\* another pending call: whatever else is in flight, each call in flight
\* can complete at once, on a resolved and on a rejected request alike, and
\* the call whose response has arrived has come back to its caller (with a
\* value or an exception) and is the only one to leave the calls in flight.
C36_EveryCallReturns ==
    /\ \A i \in 1..Len(inflight) : \A r \in Outcomes : ENABLED Settle(i, r)
    /\ last.step = "settle" =>
          /\ last.result.kind # NoResult.kind
          /\ Len(inflight) = last.others

\* a sign-up or sign-in has just returned while one started before it is
\* still awaiting its response
C36_Witness ==
    /\ last.step = "settle" /\ last.op \in SignOps
    /\ \E j \in 1..Len(inflight) : inflight[j].saw = "later"
====
